---------------------------- MODULE Spec2Model ----------------------------
(***************************************************************************)
(* Model of Developer_Productivity/codeQualityChecker.py: the              *)
(* CodeQualityChecker class (detectors, complexity, metrics, scoring and   *)
(* run_analysis).                                                          *)
(*                                                                         *)
(* Numbers that are floats in the program are kept exact: a value with two *)
(* decimals is an integer number of hundredths ("centi"), and a mean is    *)
(* the rational [num |-> sum of centi, den |-> count].                     *)
(***************************************************************************)
EXTENDS Integers, Naturals, Sequences, FiniteSets, TLC

VARIABLES
    config,         \* self.config
    metrics,        \* self.metrics: file path -> CodeMetrics
    pc,             \* position of run_analysis: idle, loop, done, aborted
    python_files,   \* run_analysis: the list find_python_files returned
    idx,            \* run_analysis: position of the for loop in python_files
    all_issues,     \* run_analysis: all_issues
    total_issues,   \* run_analysis: total_issues
    file_counts,    \* per loop iteration, len(file_issues) of that iteration
    report,         \* the QualityReport the last completed run returned
    error,          \* the exception that left run_analysis, or "none"
    runs,           \* number of run_analysis calls started on this checker
    prev,           \* history: files, per-file counts and report of the run before
    inp,            \* argument of a directly called method
    out             \* its return value

vars == << config, metrics, pc, python_files, idx, all_issues, total_issues,
           file_counts, report, error, runs, prev, inp, out >>

(***************************************************************************)
(* Bounds of the model.                                                    *)
(***************************************************************************)
MaxIssues == 3        \* longest issue list handed to the scorer directly
MaxComplexity == 11   \* largest Metrics.complexity handed to the scorer directly
MaxDen == 3           \* largest file count behind a mean maintainability index

(***************************************************************************)
(* Helpers.                                                                *)
(***************************************************************************)
Max(a, b) == IF a >= b THEN a ELSE b

Min(a, b) == IF a <= b THEN a ELSE b

Abs(a) == IF a >= 0 THEN a ELSE -a

SeqsUpTo(S, n) == UNION { [1..k -> S] : k \in 0..n }

RECURSIVE SumSeq(_)
SumSeq(s) == IF s = << >> THEN 0 ELSE Head(s) + SumSeq(Tail(s))

NoValue == [none |-> TRUE]

(***************************************************************************)
(* round(x, 2) of the float x = n/d hundredths.  The result is the nearest *)
(* hundredth; when n/d lies exactly halfway between two hundredths in      *)
(* decimal, the binary value of the float decides, so either neighbour is  *)
(* a possible result.                                                      *)
(***************************************************************************)
Round2(n, d) ==
    { r \in (n \div d)..((n \div d) + 1) : 2 * Abs(r * d - n) <= d }

(***************************************************************************)
(* Data model.                                                             *)
(***************************************************************************)
\* message: the measured value and the limit the message text names (0, 0 when
\* the text names none)
Message(measured, limit) == [measured |-> measured, limit |-> limit]

CodeIssue(path, line, type, sev) ==
    [file_path |-> path, line_number |-> line, issue_type |-> type, severity |-> sev,
     message |-> Message(0, 0)]

CodeMetrics(loc, com, blank, fns, cls, cx, mi) ==
    [lines_of_code |-> loc, comment_lines |-> com, blank_lines |-> blank,
     function_count |-> fns, class_count |-> cls, complexity |-> cx,
     maintainability_index |-> mi]

Float(centi) == [num |-> centi, den |-> 1]

ZeroMetrics == CodeMetrics(0, 0, 0, 0, 0, 0, Float(0))

_get_default_config ==
    [max_line_length |-> 79,
     max_function_complexity |-> 10,
     max_class_complexity |-> 20,
     ignore_patterns |-> {"__pycache__", ".git", ".venv", "venv", "node_modules", "*.pyc", "*.pyo"},
     severity_weights |-> [error |-> 3, warning |-> 2, info |-> 1]]

\* A configuration file that overrides the thresholds and two of the weights.
StrictConfig ==
    [max_line_length |-> 10,
     max_function_complexity |-> 2,
     max_class_complexity |-> 3,
     ignore_patterns |-> {"__pycache__"},
     severity_weights |-> [error |-> 5, warning |-> 1]]

\* The configuration main builds when no --config file is given.
MainConfig == [max_line_length |-> 79, max_function_complexity |-> 10]

FullConfigs == { _get_default_config, StrictConfig }

Configs == FullConfigs \cup { MainConfig }

HasKey(cfg, key) == key \in DOMAIN cfg

(***************************************************************************)
(* _calculate_quality_score.  The result is in hundredths; the set holds   *)
(* the values round() can produce.                                         *)
(***************************************************************************)
\* Variant of SeverityWeight: the weights are the built-in ones, whatever the
\* configuration says.
SeverityWeight_BuiltIn(cfg, sev) ==
    IF sev = "error" THEN 3 ELSE IF sev = "warning" THEN 2 ELSE 1

SeverityWeight(cfg, sev) ==
    IF sev \in DOMAIN cfg.severity_weights THEN cfg.severity_weights[sev] ELSE 1

\* Variant of IssuePenalty: the weight is looked up once, for the first issue,
\* and charged for every issue.
IssuePenalty_FirstWeight(cfg, issues) ==
    IF issues = << >> THEN 0
    ELSE Len(issues) * SeverityWeight(cfg, Head(issues).severity)

RECURSIVE IssuePenalty(_, _)
IssuePenalty(cfg, issues) ==
    IF issues = << >> THEN 0
    ELSE SeverityWeight(cfg, Head(issues).severity) + IssuePenalty(cfg, Tail(issues))

\* Variant of ComplexityPenalty: max() written where min() caps the term.
ComplexityPenalty_Uncapped(m) == Max(m.complexity * 2, 20)

ComplexityPenalty(m) == Min(m.complexity * 2, 20)

\* max(0, 50 - maintainability_index), as hundredths over the mean's denominator
MaintainabilityPenaltyNum(m) ==
    Max(0, 5000 * m.maintainability_index.den - m.maintainability_index.num)

\* Variant of ScoreNum: the max(0, ...) clamp is left out.
ScoreNum_Unclamped(cfg, issues, m) ==
    (10000 - 100 * (IssuePenalty(cfg, issues) + ComplexityPenalty(m)))
        * m.maintainability_index.den
    - MaintainabilityPenaltyNum(m)

ScoreNum(cfg, issues, m) ==
    Max(0, (10000 - 100 * (IssuePenalty(cfg, issues) + ComplexityPenalty(m)))
              * m.maintainability_index.den
           - MaintainabilityPenaltyNum(m))

\* Variant of _calculate_quality_score: the empty-list shortcut returns 0.0.
_calculate_quality_score_EmptyIsZero(cfg, issues, m) ==
    IF issues = << >> THEN { 0 }
    ELSE Round2(ScoreNum(cfg, issues, m), m.maintainability_index.den)

_calculate_quality_score(cfg, issues, m) ==
    IF issues = << >> THEN { 10000 }
    ELSE Round2(ScoreNum(cfg, issues, m), m.maintainability_index.den)

(***************************************************************************)
(* Direct calls of _calculate_quality_score on issue lists and Metrics.    *)
(***************************************************************************)
ScorerSeverities == { "error", "warning", "info", "critical" }

ScorerIssues ==
    SeqsUpTo({ CodeIssue("a.py", 1, "flake8", s) : s \in ScorerSeverities }, MaxIssues)

\* maintainability sums in hundredths: 0, 33.34, 49.95, 50, 100, 171
MISums == { 0, 3334, 4995, 5000, 10000, 17100 }

ScorerMetrics ==
    { CodeMetrics(0, 0, 0, 0, 0, c, [num |-> n, den |-> d]) :
        c \in 0..MaxComplexity, n \in MISums, d \in 1..MaxDen }

EmptyMetrics == [ p \in { } |-> ZeroMetrics ]

Idle ==
    /\ metrics = EmptyMetrics
    /\ pc = "idle"
    /\ python_files = << >>
    /\ idx = 0
    /\ all_issues = << >>
    /\ total_issues = 0
    /\ file_counts = << >>
    /\ report = NoValue
    /\ error = "none"
    /\ runs = 0
    /\ prev = NoValue

InitScore ==
    /\ Idle
    /\ config \in FullConfigs
    /\ inp \in [issues : ScorerIssues, metrics : ScorerMetrics]
    /\ out = NoValue

CallScore ==
    /\ out = NoValue
    /\ \E s \in _calculate_quality_score(config, inp.issues, inp.metrics) :
          out' = [score |-> s]
    /\ UNCHANGED << config, metrics, pc, python_files, idx, all_issues,
                    total_issues, file_counts, report, error, runs, prev, inp >>

NextScore == CallScore

SpecScore == InitScore /\ [][NextScore]_vars

(***************************************************************************)
(* Syntax trees.  A tree is the sequence of its nodes in the order         *)
(* ast.walk yields them from the root (breadth first): node 1 is the       *)
(* Module, and every other node names its parent, an earlier node.         *)
(* A BoolOp carries nvals = len(node.values); "Other" is any node kind the *)
(* checker does not test for (Return, Expr, Try, With, Lambda, IfExp...).  *)
(* A name is the sequence of its characters.                               *)
(***************************************************************************)
MaxNodes == 4         \* nodes of an enumerated tree, the Module included

Node(kind, parent) ==
    [kind |-> kind, parent |-> parent, nvals |-> 0, name |-> << >>, ctx |-> "none"]

FunctionDef(name, parent) == [Node("FunctionDef", parent) EXCEPT !.name = name]

AsyncFunctionDef(name, parent) == [Node("AsyncFunctionDef", parent) EXCEPT !.name = name]

ClassDef(name, parent) == [Node("ClassDef", parent) EXCEPT !.name = name]

BoolOp(nvals, parent) == [Node("BoolOp", parent) EXCEPT !.nvals = nvals]

Name(id, ctx, parent) == [Node("Name", parent) EXCEPT !.name = id, !.ctx = ctx]

Module == Node("Module", 0)

\* the nodes an enumerated tree is built from, as children of node p
NodeVariants(p) ==
    << FunctionDef(<<"f">>, p), AsyncFunctionDef(<<"g">>, p), ClassDef(<<"C">>, p),
       Node("If", p), Node("While", p), Node("For", p), Node("AsyncFor", p),
       Node("ExceptHandler", p), BoolOp(2, p), BoolOp(3, p),
       Name(<<"x">>, "Store", p), Node("Other", p) >>

\* the parents of n nodes in breadth-first order
ParentSeqs(n) ==
    { p \in [1..n -> 0..(n - 1)] :
        /\ p[1] = 0
        /\ \A i \in 2..n : p[i] >= 1 /\ p[i] < i /\ (i > 2 => p[i - 1] <= p[i]) }

\* the tree with parents p and, for node i > 1, the variant numbered ks[i]
TreeOf(p, ks) ==
    [ i \in DOMAIN p |-> IF i = 1 THEN Module ELSE NodeVariants(p[i])[ks[i]] ]

\* a Name has no child the checker looks at
WellFormed(t) == \A i \in 2..Len(t) : t[t[i].parent].kind # "Name"

\* def f(): two if statements and one while loop
TwoIfsOneWhile ==
    << Module, FunctionDef(<<"f">>, 1), Node("If", 2), Node("If", 2), Node("While", 2) >>

\* class C with methods a (if, while: complexity 3) and b (a and b and c and d and e: 5)
ClassTwoMethods ==
    << Module, ClassDef(<<"C">>, 1), FunctionDef(<<"a">>, 2), FunctionDef(<<"b">>, 2),
       Node("If", 3), Node("While", 3), BoolOp(5, 4) >>

\* class C with a class attribute and no method
ClassNoMethods ==
    << Module, ClassDef(<<"C">>, 1), Name(<<"x">>, "Store", 2) >>

\* class C with a method m and a nested class D with a method n holding an if
ClassNestedClass ==
    << Module, ClassDef(<<"C">>, 1), FunctionDef(<<"m">>, 2), ClassDef(<<"D">>, 2),
       FunctionDef(<<"n">>, 4), Node("If", 5) >>

\* def f(): a boolean chain of 40 operands
LongBooleanChain ==
    << Module, FunctionDef(<<"f">>, 1), BoolOp(40, 2) >>

\* def f(): def g(): if ...: ...; while ...: ...
NestedFunction ==
    << Module, FunctionDef(<<"f">>, 1), FunctionDef(<<"g">>, 2), Node("If", 3),
       Node("While", 3) >>

ExampleTrees ==
    { TwoIfsOneWhile, ClassTwoMethods, ClassNoMethods, ClassNestedClass,
      LongBooleanChain, NestedFunction }

IndexSeq(t) == [ i \in 1..Len(t) |-> i ]

\* ast.iter_child_nodes(node), in source order
iter_child_nodes(t, n) == SelectSeq(IndexSeq(t), LAMBDA j : t[j].parent = n)

\* ast.walk: pop the first node of the queue, append its children, yield it
RECURSIVE walk(_, _)
walk(t, todo) ==
    IF todo = << >> THEN << >>
    ELSE << Head(todo) >> \o walk(t, Tail(todo) \o iter_child_nodes(t, Head(todo)))

(***************************************************************************)
(* _calculate_complexity and _calculate_class_complexity.                  *)
(***************************************************************************)
\* Variant of ComplexityOfNode: a BoolOp adds len(values), not len(values) - 1.
ComplexityOfNode_OperandCount(node) ==
    IF node.kind \in { "If", "While", "For", "AsyncFor" } THEN 1
    ELSE IF node.kind = "ExceptHandler" THEN 1
    ELSE IF node.kind = "BoolOp" THEN node.nvals
    ELSE 0

ComplexityOfNode(node) ==
    IF node.kind \in { "If", "While", "For", "AsyncFor" } THEN 1
    ELSE IF node.kind = "ExceptHandler" THEN 1
    ELSE IF node.kind = "BoolOp" THEN node.nvals - 1
    ELSE 0

RECURSIVE ComplexityOver(_, _)
ComplexityOver(t, nodes) ==
    IF nodes = << >> THEN 0
    ELSE ComplexityOfNode(t[Head(nodes)]) + ComplexityOver(t, Tail(nodes))

_calculate_complexity(t, n) == 1 + ComplexityOver(t, walk(t, << n >>))

RECURSIVE ClassComplexityOver(_, _)
ClassComplexityOver(t, body) ==
    IF body = << >> THEN 0
    ELSE (IF t[Head(body)].kind = "FunctionDef"
             THEN _calculate_complexity(t, Head(body)) ELSE 0)
         + ClassComplexityOver(t, Tail(body))

_calculate_class_complexity(t, n) == ClassComplexityOver(t, iter_child_nodes(t, n))

(***************************************************************************)
(* Files.  A file is readable or not (open, read or decoding fails); its   *)
(* text is its lines; ast.parse of the text gives the tree, raises         *)
(* SyntaxError (at lineno, 0 when the parser reports none) or raises       *)
(* another exception (ValueError, RecursionError, MemoryError).            *)
(* A line has its length without the trailing newline, the number of       *)
(* trailing whitespace characters among them, and its kind: "blank"        *)
(* (strip() is empty), "comment" (strip() starts with '#') or "code".      *)
(***************************************************************************)
Line(kind, len, trail) == [kind |-> kind, len |-> len, trail |-> trail]

SourceFile(lines, tree) ==
    [readable |-> TRUE, parse |-> "ok", lineno |-> 0, lines |-> lines, tree |-> tree]

InvalidFile(lines, exc, lineno) ==
    [readable |-> TRUE, parse |-> exc, lineno |-> lineno, lines |-> lines,
     tree |-> << >>]

UnreadableFile ==
    [readable |-> FALSE, parse |-> "ValueError", lineno |-> 0, lines |-> << >>,
     tree |-> << >>]

(***************************************************************************)
(* calculate_metrics.                                                      *)
(***************************************************************************)
CountLines(lines, kind) == Cardinality({ i \in DOMAIN lines : lines[i].kind = kind })

CountNodes(t, kind) == Cardinality({ i \in DOMAIN t : t[i].kind = kind })

RECURSIVE FileComplexityOver(_, _)
FileComplexityOver(t, nodes) ==
    IF nodes = << >> THEN 0
    ELSE (IF t[Head(nodes)].kind = "FunctionDef"
             THEN _calculate_complexity(t, Head(nodes)) ELSE 0)
         + FileComplexityOver(t, Tail(nodes))

\* Variant of MaintainabilityIndex: the max(0, ...) clamp is left out.
MaintainabilityIndex_Unclamped(complexity, code_lines, function_count) ==
    17100 - 520 * complexity - 23 * code_lines - 1620 * function_count

\* max(0, 171 - 5.2*complexity - 0.23*code_lines - 16.2*function_count), hundredths
MaintainabilityIndex(complexity, code_lines, function_count) ==
    Max(0, 17100 - 520 * complexity - 23 * code_lines - 1620 * function_count)

\* Variant of calculate_metrics: the line counts taken before ast.parse raised
\* are returned for a file that does not parse.
calculate_metrics_KeepsLineCounts(f) ==
    IF ~f.readable THEN ZeroMetrics
    ELSE IF f.parse # "ok"
    THEN CodeMetrics(Len(f.lines) - CountLines(f.lines, "comment")
                                  - CountLines(f.lines, "blank"),
                     CountLines(f.lines, "comment"), CountLines(f.lines, "blank"),
                     0, 0, 0, Float(0))
    ELSE LET code_lines == Len(f.lines) - CountLines(f.lines, "comment")
                                        - CountLines(f.lines, "blank")
             function_count == CountNodes(f.tree, "FunctionDef")
             complexity == FileComplexityOver(f.tree, walk(f.tree, << 1 >>))
         IN  CodeMetrics(code_lines, CountLines(f.lines, "comment"),
                         CountLines(f.lines, "blank"), function_count,
                         CountNodes(f.tree, "ClassDef"), complexity,
                         Float(MaintainabilityIndex(complexity, code_lines,
                                                    function_count)))

calculate_metrics(f) ==
    IF ~f.readable \/ f.parse # "ok" THEN ZeroMetrics
    ELSE LET total_lines == Len(f.lines)
             comment_lines == CountLines(f.lines, "comment")
             blank_lines == CountLines(f.lines, "blank")
             code_lines == total_lines - comment_lines - blank_lines
             function_count == CountNodes(f.tree, "FunctionDef")
             class_count == CountNodes(f.tree, "ClassDef")
             complexity == FileComplexityOver(f.tree, walk(f.tree, << 1 >>))
         IN  CodeMetrics(code_lines, comment_lines, blank_lines, function_count,
                         class_count, complexity,
                         Float(MaintainabilityIndex(complexity, code_lines,
                                                    function_count)))

(***************************************************************************)
(* Direct calls of _calculate_complexity, _calculate_class_complexity and  *)
(* calculate_metrics on parsed files.                                      *)
(***************************************************************************)
MaxLines == 2         \* lines of an enumerated file text

LineVariants ==
    { Line("code", 8, 0), Line("code", 12, 2), Line("comment", 5, 0), Line("blank", 0, 0) }

EnumeratedTexts == SeqsUpTo(LineVariants, MaxLines)

\* 400 lines of code
LongText == [ i \in 1..400 |-> Line("code", 8, 0) ]

ExampleFiles ==
    { SourceFile(l, t) : l \in EnumeratedTexts \cup { LongText },
                         t \in ExampleTrees \cup { << Module >> } }
    \cup { InvalidFile(l, e, 1) : l \in EnumeratedTexts, e \in { "SyntaxError", "ValueError" } }
    \cup { UnreadableFile }

InitAst ==
    /\ Idle
    /\ config = _get_default_config
    /\ out = NoValue
    /\ \/ inp \in ExampleFiles
       \/ \E n \in 2..MaxNodes : \E p \in ParentSeqs(n) :
             \E ks \in [2..n -> DOMAIN NodeVariants(1)] :
                /\ WellFormed(TreeOf(p, ks @@ (1 :> 1)))
                /\ inp = SourceFile(<< Line("code", 8, 0) >>, TreeOf(p, ks @@ (1 :> 1)))

CallComplexity ==
    /\ out = NoValue
    /\ \E n \in DOMAIN inp.tree :
          /\ inp.tree[n].kind \in { "FunctionDef", "AsyncFunctionDef" }
          /\ out' = [fn |-> "_calculate_complexity", node |-> n,
                     value |-> _calculate_complexity(inp.tree, n)]
    /\ UNCHANGED << config, metrics, pc, python_files, idx, all_issues,
                    total_issues, file_counts, report, error, runs, prev, inp >>

CallClassComplexity ==
    /\ out = NoValue
    /\ \E n \in DOMAIN inp.tree :
          /\ inp.tree[n].kind = "ClassDef"
          /\ out' = [fn |-> "_calculate_class_complexity", node |-> n,
                     value |-> _calculate_class_complexity(inp.tree, n)]
    /\ UNCHANGED << config, metrics, pc, python_files, idx, all_issues,
                    total_issues, file_counts, report, error, runs, prev, inp >>

CallMetrics ==
    /\ out = NoValue
    /\ out' = [fn |-> "calculate_metrics", node |-> 0, value |-> calculate_metrics(inp)]
    /\ UNCHANGED << config, metrics, pc, python_files, idx, all_issues,
                    total_issues, file_counts, report, error, runs, prev, inp >>

NextAst == CallComplexity \/ CallClassComplexity \/ CallMetrics

SpecAst == InitAst /\ [][NextAst]_vars

(***************************************************************************)
(* Names.  str.islower(): at least one cased character and no upper-case   *)
(* one; str.isupper() likewise.                                            *)
(***************************************************************************)
LowerChars == { "a", "b", "c", "f", "g", "m", "n", "o", "x", "y" }

UpperChars == { "A", "B", "C", "D", "F", "M", "X" }

Chars(name) == { name[i] : i \in DOMAIN name }

islower(name) == Chars(name) \cap LowerChars # { } /\ Chars(name) \cap UpperChars = { }

\* Variant of isupper: one upper-case character is enough.
isupper_AnyUpper(name) == Chars(name) \cap UpperChars # { }

isupper(name) == Chars(name) \cap UpperChars # { } /\ Chars(name) \cap LowerChars = { }

HasUnderscore(name) == "_" \in Chars(name)

(***************************************************************************)
(* The detectors.  node.lineno is modelled by the node's position in the   *)
(* tree.                                                                   *)
(***************************************************************************)
analyze_syntax(path, f) ==
    IF ~f.readable THEN << CodeIssue(path, 0, "parsing_error", "error") >>
    ELSE IF f.parse = "SyntaxError"
         THEN << CodeIssue(path, f.lineno, "syntax_error", "error") >>
    ELSE IF f.parse # "ok" THEN << CodeIssue(path, 0, "parsing_error", "error") >>
    ELSE << >>

RECURSIVE LineLengthOver_AtLeast(_, _, _, _)
\* Variant of LineLengthOver: >= written where > compares with the limit.
LineLengthOver_AtLeast(path, lines, line_num, max_length) ==
    IF line_num > Len(lines) THEN << >>
    ELSE (IF lines[line_num].len >= max_length
             THEN << [ CodeIssue(path, line_num, "line_too_long", "warning")
                         EXCEPT !.message =
                           Message(lines[line_num].len - lines[line_num].trail,
                                   max_length) ] >>
             ELSE << >>)
         \o LineLengthOver_AtLeast(path, lines, line_num + 1, max_length)

RECURSIVE LineLengthOver(_, _, _, _)
LineLengthOver(path, lines, line_num, max_length) ==
    IF line_num > Len(lines) THEN << >>
    ELSE (IF lines[line_num].len > max_length
             THEN << [ CodeIssue(path, line_num, "line_too_long", "warning")
                         EXCEPT !.message =
                           Message(lines[line_num].len - lines[line_num].trail,
                                   max_length) ] >>
             ELSE << >>)
         \o LineLengthOver(path, lines, line_num + 1, max_length)

\* called with a config that has max_line_length (line 136 raises otherwise)
check_line_length(path, f, cfg) ==
    IF ~f.readable THEN << CodeIssue(path, 0, "file_read_error", "error") >>
    ELSE LineLengthOver(path, f.lines, 1, cfg.max_line_length)

NamingIssueOf(path, t, n) ==
    LET node == t[n]
    IN  IF node.kind = "FunctionDef"
        THEN IF ~islower(node.name) /\ ~HasUnderscore(node.name)
             THEN << CodeIssue(path, n, "naming_convention", "warning") >>
             ELSE << >>
        ELSE IF node.kind = "ClassDef"
        THEN IF ~(node.name[1] \in UpperChars) \/ HasUnderscore(node.name)
             THEN << CodeIssue(path, n, "naming_convention", "warning") >>
             ELSE << >>
        ELSE IF node.kind = "Name"
        THEN IF /\ node.ctx = "Store"
                /\ ~islower(node.name) /\ ~HasUnderscore(node.name) /\ ~isupper(node.name)
             THEN << CodeIssue(path, n, "naming_convention", "info") >>
             ELSE << >>
        ELSE << >>

RECURSIVE NamingOver(_, _, _)
NamingOver(path, t, nodes) ==
    IF nodes = << >> THEN << >>
    ELSE NamingIssueOf(path, t, Head(nodes)) \o NamingOver(path, t, Tail(nodes))

check_naming_conventions(path, f) ==
    IF ~f.readable \/ f.parse # "ok"
    THEN << CodeIssue(path, 0, "naming_analysis_error", "error") >>
    ELSE NamingOver(path, f.tree, walk(f.tree, << 1 >>))

RECURSIVE ComplexityIssuesOver(_, _, _, _)
\* a missing threshold raises KeyError inside the try block: the issues found
\* so far stay and the handler appends complexity_analysis_error
ComplexityIssuesOver(path, t, nodes, cfg) ==
    IF nodes = << >> THEN << >>
    ELSE LET n == Head(nodes)
         IN  IF t[n].kind = "FunctionDef"
             THEN IF ~HasKey(cfg, "max_function_complexity")
                  THEN << CodeIssue(path, 0, "complexity_analysis_error", "error") >>
                  ELSE (IF _calculate_complexity(t, n) > cfg.max_function_complexity
                           THEN << [ CodeIssue(path, n, "high_complexity", "warning")
                                       EXCEPT !.message =
                                         Message(_calculate_complexity(t, n),
                                                 cfg.max_function_complexity) ] >>
                           ELSE << >>)
                       \o ComplexityIssuesOver(path, t, Tail(nodes), cfg)
             ELSE IF t[n].kind = "ClassDef"
             THEN IF ~HasKey(cfg, "max_class_complexity")
                  THEN << CodeIssue(path, 0, "complexity_analysis_error", "error") >>
                  ELSE (IF _calculate_class_complexity(t, n) > cfg.max_class_complexity
                           THEN << [ CodeIssue(path, n, "high_class_complexity", "warning")
                                       EXCEPT !.message =
                                         Message(_calculate_class_complexity(t, n),
                                                 cfg.max_class_complexity) ] >>
                           ELSE << >>)
                       \o ComplexityIssuesOver(path, t, Tail(nodes), cfg)
             ELSE ComplexityIssuesOver(path, t, Tail(nodes), cfg)

analyze_complexity(path, f, cfg) ==
    IF ~f.readable \/ f.parse # "ok"
    THEN << CodeIssue(path, 0, "complexity_analysis_error", "error") >>
    ELSE ComplexityIssuesOver(path, f.tree, walk(f.tree, << 1 >>), cfg)

(***************************************************************************)
(* run_external_tools.  What subprocess.run(['flake8', ...]) does is an    *)
(* input of each call: it raises, or returns a return code and a stdout.   *)
(* The stdout is JSON (a list of items; an item that is no dict with the   *)
(* keys filename, line_number, code and text has keys = FALSE) or text     *)
(* (lines; a line has nparts parts between colons, the second an integer   *)
(* or not).                                                                *)
(***************************************************************************)
ToolRaises(exc) == [raises |-> exc, returncode |-> 0, json |-> FALSE, items |-> << >>]

ToolExits(rc, json, items) ==
    [raises |-> "none", returncode |-> rc, json |-> json, items |-> items]

JsonItem(line, letter) == [keys |-> TRUE, line_number |-> line, code |-> letter]

TextLine(nparts, isint, line) == [nparts |-> nparts, isint |-> isint, line_number |-> line]

ToolOutcomes ==
    { ToolRaises("FileNotFoundError"),
      ToolRaises("TimeoutExpired"),
      ToolRaises("PermissionError"),
      ToolExits(0, FALSE, << >>),
      ToolExits(1, TRUE, << JsonItem(3, "E"), JsonItem(1, "W") >>),
      ToolExits(1, TRUE, << JsonItem(3, "E"), [keys |-> FALSE, line_number |-> 0, code |-> "E"] >>),
      ToolExits(1, FALSE, << TextLine(1, FALSE, 0), TextLine(4, TRUE, 2) >>),
      ToolExits(1, FALSE, << TextLine(4, FALSE, 0) >>) }

Result(raised, issues) == [raised |-> raised, issues |-> issues]

RECURSIVE JsonIssuesOver_CodeAsSeverity(_)
\* Variant of JsonIssuesOver: the code letter of the finding is stored as the
\* severity.
JsonIssuesOver_CodeAsSeverity(items) ==
    IF items = << >> THEN Result("none", << >>)
    ELSE IF ~Head(items).keys THEN Result("KeyError", << >>)
    ELSE LET rest == JsonIssuesOver_CodeAsSeverity(Tail(items))
         IN  IF rest.raised # "none" THEN rest
             ELSE Result("none",
                         << CodeIssue("flake8.filename", Head(items).line_number, "flake8",
                                      Head(items).code) >>
                         \o rest.issues)

RECURSIVE JsonIssuesOver(_)
JsonIssuesOver(items) ==
    IF items = << >> THEN Result("none", << >>)
    ELSE IF ~Head(items).keys THEN Result("KeyError", << >>)
    ELSE LET rest == JsonIssuesOver(Tail(items))
         IN  IF rest.raised # "none" THEN rest
             ELSE Result("none",
                         << CodeIssue("flake8.filename", Head(items).line_number, "flake8",
                                      IF Head(items).code = "W" THEN "warning" ELSE "error") >>
                         \o rest.issues)

RECURSIVE TextIssuesOver(_)
TextIssuesOver(lines) ==
    IF lines = << >> THEN Result("none", << >>)
    ELSE IF Head(lines).nparts < 3 THEN TextIssuesOver(Tail(lines))
    ELSE IF ~Head(lines).isint THEN Result("ValueError", << >>)
    ELSE LET rest == TextIssuesOver(Tail(lines))
         IN  IF rest.raised # "none" THEN rest
             ELSE Result("none",
                         << CodeIssue("flake8.filename", Head(lines).line_number, "flake8",
                                      "warning") >>
                         \o rest.issues)

run_external_tools(tool) ==
    IF tool.raises \in { "TimeoutExpired", "FileNotFoundError", "SubprocessError" }
    THEN Result("none", << >>)
    ELSE IF tool.raises # "none" THEN Result(tool.raises, << >>)
    ELSE IF tool.returncode = 0 THEN Result("none", << >>)
    ELSE IF tool.json THEN JsonIssuesOver(tool.items)
    ELSE TextIssuesOver(tool.items)

(***************************************************************************)
(* analyze_file: the issues it returns, or the exception that leaves it.   *)
(***************************************************************************)
analyze_file(path, f, cfg, tool) ==
    IF ~HasKey(cfg, "max_line_length") THEN Result("KeyError", << >>)
    ELSE LET external == run_external_tools(tool)
         IN  IF external.raised # "none" THEN external
             ELSE Result("none",
                         analyze_syntax(path, f)
                         \o check_line_length(path, f, cfg)
                         \o check_naming_conventions(path, f)
                         \o analyze_complexity(path, f, cfg)
                         \o external.issues)

(***************************************************************************)
(* The project: the files find_python_files can discover.                  *)
(***************************************************************************)
MaxFiles == 2         \* most files one run discovers
MaxRuns == 2          \* run_analysis calls on one checker

\* a.py: def f(): if ...   (3 lines: code, comment, blank)
\* b.py: a 90-character line; class my_class with def Foo(): if ..., while ..., a and b and c
\* c.py: invalid syntax at line 1, one 100-character line
\* d.py: cannot be read
FileSystem ==
    [ a |-> SourceFile(<< Line("code", 8, 0), Line("comment", 5, 0), Line("blank", 0, 0) >>,
                       << Module, FunctionDef(<<"f">>, 1), Node("If", 2) >>),
      b |-> SourceFile(<< Line("code", 90, 4), Line("code", 12, 0) >>,
                       << Module, ClassDef(<<"m", "y", "_", "c">>, 1),
                          FunctionDef(<<"F", "o", "o">>, 2), Node("If", 3),
                          Node("While", 3), BoolOp(3, 3) >>),
      c |-> InvalidFile(<< Line("code", 100, 0) >>, "SyntaxError", 1),
      d |-> UnreadableFile ]

Paths == DOMAIN FileSystem

IsInjective(list) == \A i, j \in DOMAIN list : list[i] = list[j] => i = j

\* the lists find_python_files can return
FileLists == { l \in SeqsUpTo(Paths, MaxFiles) : IsInjective(l) }

\* A three-file project: A.py has one 90-character line (one warning), B.py is
\* clean for the built-in detectors, C.py has invalid syntax at line 2.
EndToEndProject ==
    [ A |-> SourceFile(<< Line("code", 90, 0) >>, << Module, Name(<<"x">>, "Store", 1) >>),
      B |-> SourceFile(<< Line("code", 8, 0), Line("code", 12, 0) >>,
                       << Module, FunctionDef(<<"f">>, 1), Node("If", 2) >>),
      C |-> InvalidFile(<< Line("code", 8, 0), Line("code", 5, 0) >>, "SyntaxError", 2) ]

\* the content of the file at path
FileAt(path) ==
    IF path \in DOMAIN FileSystem THEN FileSystem[path] ELSE EndToEndProject[path]

(***************************************************************************)
(* run_analysis.                                                           *)
(***************************************************************************)
\* Variant of AddCount: the counter counts analyzed files, not issues.
AddCount_PerFile(total, file_issues) == total + 1

\* total_issues += len(file_issues)
AddCount(total, file_issues) == total + Len(file_issues)

\* all_issues.extend(file_issues)
Extend(all, file_issues) == all \o file_issues

\* Variant of SumMetric: the total is assigned the field of one entry, not
\* increased by the field of every entry.
SumMetric_Assigned(map, S, field) ==
    IF S = { } THEN 0
    ELSE map[CHOOSE q \in S : TRUE][field]

RECURSIVE SumMetric(_, _, _)
\* sum of one integer field over the entries S of the metrics map
SumMetric(map, S, field) ==
    IF S = { } THEN 0
    ELSE LET k == CHOOSE q \in S : TRUE
         IN  map[k][field] + SumMetric(map, S \ { k }, field)

RECURSIVE SumMaintainability(_, _)
SumMaintainability(map, S) ==
    IF S = { } THEN 0
    ELSE LET k == CHOOSE q \in S : TRUE
         IN  map[k].maintainability_index.num + SumMaintainability(map, S \ { k })

\* the aggregation over self.metrics.values()
TotalMetrics(map) ==
    CodeMetrics(SumMetric(map, DOMAIN map, "lines_of_code"),
                SumMetric(map, DOMAIN map, "comment_lines"),
                SumMetric(map, DOMAIN map, "blank_lines"),
                SumMetric(map, DOMAIN map, "function_count"),
                SumMetric(map, DOMAIN map, "class_count"),
                SumMetric(map, DOMAIN map, "complexity"),
                IF Cardinality(DOMAIN map) > 0
                   THEN [num |-> SumMaintainability(map, DOMAIN map),
                         den |-> Cardinality(DOMAIN map)]
                   ELSE Float(0))

\* Variant of CountBy: the entry of a value is set to 1, not increased by 1.
CountBy_Presence(issues, field) ==
    [ v \in { issues[i][field] : i \in DOMAIN issues } |-> 1 ]

\* a defaultdict(int) counting the issues by one of their fields
CountBy(issues, field) ==
    [ v \in { issues[i][field] : i \in DOMAIN issues } |->
        Cardinality({ i \in DOMAIN issues : issues[i][field] = v }) ]

QualityReport(files, total, total_metrics, issues, score) ==
    [total_files |-> Len(files),
     total_issues |-> total,
     metrics |-> total_metrics,
     issues |-> issues,
     summary |-> [total_files |-> Len(files),
                  total_issues |-> total,
                  issues_by_severity |-> CountBy(issues, "severity"),
                  issues_by_type |-> CountBy(issues, "issue_type"),
                  quality_score |-> score]]

Init ==
    /\ Idle
    /\ config \in Configs
    /\ inp = NoValue
    /\ out = NoValue

\* a variant of StoreMetrics that adds the integer fields to the entry the path
\* already has
StoreMetrics_Accumulate(map, path, m) ==
    [ q \in DOMAIN map \cup { path } |->
        IF q # path THEN map[q]
        ELSE IF path \notin DOMAIN map THEN m
        ELSE [ m EXCEPT !.lines_of_code = @ + map[path].lines_of_code,
                        !.function_count = @ + map[path].function_count,
                        !.complexity = @ + map[path].complexity ] ]

\* a variant of StoreMetrics that drops the entries of the other files
StoreMetrics_Only(map, path, m) == [ q \in { path } |-> m ]

\* self.metrics[str(file_path)] = m
StoreMetrics(map, path, m) ==
    [ q \in DOMAIN map \cup { path } |-> IF q = path THEN m ELSE map[q] ]

\* run_analysis up to the loop, find_python_files returning files: it tests
\* every directory entry against config['ignore_patterns']
RunAnalysisOn(files) ==
    /\ python_files' = files
    /\ IF files # << >> /\ ~HasKey(config, "ignore_patterns")
          THEN pc' = "aborted" /\ error' = "KeyError"
          ELSE pc' = "loop" /\ error' = "none"
    /\ runs' = runs + 1
    /\ idx' = 1
    /\ all_issues' = << >>
    /\ total_issues' = 0
    /\ file_counts' = << >>
    /\ report' = NoValue
    /\ inp' = NoValue
    /\ out' = NoValue
    /\ UNCHANGED << config, metrics >>

RunAnalysis ==
    /\ pc \in { "idle", "done", "aborted" }
    /\ runs < MaxRuns
    /\ \E files \in FileLists : RunAnalysisOn(files)
    /\ UNCHANGED prev

\* one iteration of the loop over python_files; the external tool behaves as
\* one of tools
AnalyzeFileWith(tools) ==
    /\ pc = "loop"
    /\ idx <= Len(python_files)
    /\ \E tool \in tools :
          LET path == python_files[idx]
              res == analyze_file(path, FileAt(path), config, tool)
          IN  /\ inp' = [path |-> path, tool |-> tool]
              /\ IF res.raised # "none"
                    THEN /\ pc' = "aborted"
                         /\ error' = res.raised
                         /\ out' = NoValue
                         /\ UNCHANGED << metrics, idx, all_issues, total_issues,
                                         file_counts >>
                    ELSE /\ metrics' = StoreMetrics(metrics, path,
                                                     calculate_metrics(FileAt(path)))
                         /\ out' = [fn |-> "analyze_file", issues |-> res.issues]
                         /\ all_issues' = Extend(all_issues, res.issues)
                         /\ total_issues' = AddCount(total_issues, res.issues)
                         /\ file_counts' = Append(file_counts, Len(res.issues))
                         /\ idx' = idx + 1
                         /\ UNCHANGED << pc, error >>
    /\ UNCHANGED << config, python_files, report, runs, prev >>

AnalyzeFile == AnalyzeFileWith(ToolOutcomes)

\* after the loop: aggregate the metrics, build the summary, return the report
Aggregate ==
    /\ pc = "loop"
    /\ idx > Len(python_files)
    /\ IF all_issues # << >> /\ ~HasKey(config, "severity_weights")
          THEN /\ pc' = "aborted"
               /\ error' = "KeyError"
               /\ UNCHANGED report
          ELSE /\ \E score \in _calculate_quality_score(config, all_issues,
                                                        TotalMetrics(metrics)) :
                     report' = QualityReport(python_files, total_issues,
                                             TotalMetrics(metrics), all_issues, score)
               /\ pc' = "done"
               /\ UNCHANGED error
    /\ UNCHANGED << config, metrics, python_files, idx, all_issues, total_issues,
                    file_counts, runs, prev, inp, out >>

Next == RunAnalysis \/ AnalyzeFile \/ Aggregate

Spec == Init /\ [][Next]_vars

(***************************************************************************)
(* Properties of _calculate_quality_score.                                 *)
(***************************************************************************)
Scored == inp # NoValue /\ out # NoValue /\ "score" \in DOMAIN out

ScoredDen == inp.metrics.maintainability_index.den

ScoredMI == inp.metrics.maintainability_index.num

CountSeverity(issues, s) ==
    Cardinality({ i \in DOMAIN issues : issues[i].severity = s })

\* the documented penalty of the scored scope, times 100 * ScoredDen
DocumentedPenaltyNum ==
    100 * ScoredDen *
        ( CountSeverity(inp.issues, "error") * SeverityWeight(config, "error")
        + CountSeverity(inp.issues, "warning") * SeverityWeight(config, "warning")
        + CountSeverity(inp.issues, "info") * SeverityWeight(config, "info")
        + CountSeverity(inp.issues, "critical") * 1
        + (IF inp.metrics.complexity >= 10 THEN 20 ELSE 2 * inp.metrics.complexity) )
    + (IF ScoredMI >= 5000 * ScoredDen THEN 0 ELSE 5000 * ScoredDen - ScoredMI)

\* max(0, 100 - penalty), times 100 * ScoredDen
DocumentedScoreNum ==
    IF DocumentedPenaltyNum >= 10000 * ScoredDen THEN 0
    ELSE 10000 * ScoredDen - DocumentedPenaltyNum

\* C3: with an empty issue list the score still is
\* max(0, 100 - min(2*complexity, 20) - max(0, 50 - maintainability_index))
\* (to the two decimals the scorer rounds to).
C3_EmptyListAppliesMetricPenalty ==
    (Scored /\ inp.issues = << >>)
        => 2 * Abs(out.score * ScoredDen - DocumentedScoreNum) <= ScoredDen

\* C4: zero issues, zero complexity and maintainability_index >= 50 score
\* exactly 100.0.
C4_CleanScopeScores100 ==
    (Scored /\ inp.issues = << >> /\ inp.metrics.complexity = 0
            /\ ScoredMI >= 5000 * ScoredDen)
        => out.score = 10000

C4_Witness ==
    /\ Scored
    /\ inp.issues = << >>
    /\ inp.metrics.complexity = 0
    /\ ScoredMI >= 5000 * ScoredDen
    /\ out.score = 10000

\* C5 as stated: for a non-empty issue list the score is exactly
\* max(0, 100 - penalty), penalty = sum of severity weights
\* + min(2*complexity, 20) + max(0, 50 - maintainability_index).
C5_ScoreIsExactFormula ==
    (Scored /\ inp.issues # << >>)
        => out.score * ScoredDen = DocumentedScoreNum

\* C5 amended: for a non-empty issue list the score is max(0, 100 - penalty)
\* rounded to two decimal places (penalty as above).
C5_ScoreIsRoundedFormula ==
    (Scored /\ inp.issues # << >>)
        => 2 * Abs(out.score * ScoredDen - DocumentedScoreNum) <= ScoredDen

C5_Witness ==
    /\ Scored
    /\ Len(inp.issues) = 3
    /\ inp.metrics.complexity > 10
    /\ ScoredMI < 5000 * ScoredDen
    /\ ScoredDen = 3
    /\ out.score * ScoredDen # DocumentedScoreNum
    /\ out.score > 0

(***************************************************************************)
(* Properties of _calculate_complexity, _calculate_class_complexity and    *)
(* calculate_metrics.                                                      *)
(***************************************************************************)
IsFunctionDef(node) == node.kind \in { "FunctionDef", "AsyncFunctionDef" }

RECURSIVE IsInside(_, _, _)
\* node j lies in the subtree below node a
IsInside(t, a, j) ==
    /\ j > 1
    /\ \/ t[j].parent = a
       \/ IsInside(t, a, t[j].parent)

SubtreeOf(t, a) == { j \in DOMAIN t : IsInside(t, a, j) }

\* the nodes below a that no function definition nested in a encloses
OwnSubtreeOf(t, a) ==
    { j \in SubtreeOf(t, a) :
        ~ \E g \in SubtreeOf(t, a) : IsFunctionDef(t[g]) /\ IsInside(t, g, j) }

OfKind(t, S, kinds) == { j \in S : t[j].kind \in kinds }

RECURSIVE ExtraOperands(_, _)
\* sum over the BoolOp nodes of S of (operand count - 1)
ExtraOperands(t, S) ==
    IF S = { } THEN 0
    ELSE LET j == CHOOSE k \in S : TRUE
         IN  (IF t[j].kind = "BoolOp" THEN t[j].nvals - 1 ELSE 0)
             + ExtraOperands(t, S \ { j })

\* 1 + branches + loops + handlers + extra boolean operands among the nodes S
CountedComplexity(t, S) ==
    1 + Cardinality(OfKind(t, S, { "If" }))
      + Cardinality(OfKind(t, S, { "While", "For", "AsyncFor" }))
      + Cardinality(OfKind(t, S, { "ExceptHandler" }))
      + ExtraOperands(t, S)

ComplexityCalled == out # NoValue /\ "fn" \in DOMAIN out /\ out.fn = "_calculate_complexity"

ClassComplexityCalled ==
    out # NoValue /\ "fn" \in DOMAIN out /\ out.fn = "_calculate_class_complexity"

MetricsCalled == out # NoValue /\ "fn" \in DOMAIN out /\ out.fn = "calculate_metrics"

\* C6: the complexity of a function counts only the constructs of its own
\* control-flow subtree; constructs inside a nested function definition do
\* not add to the enclosing function's complexity.
C6_NestedDefinitionsExcluded ==
    ComplexityCalled
        => out.value = CountedComplexity(inp.tree, OwnSubtreeOf(inp.tree, out.node))

\* C7: for a function without nested function definitions the complexity is
\* 1 + if/elif nodes + while/for/async-for loops + exception handlers
\* + sum over boolean chains of (operand count - 1); with none of these it is
\* 1, and with two ifs and one while it is 4.
C7_ComplexityFormula ==
    (ComplexityCalled
       /\ ~ \E g \in SubtreeOf(inp.tree, out.node) : IsFunctionDef(inp.tree[g]))
        => /\ out.value = CountedComplexity(inp.tree, SubtreeOf(inp.tree, out.node))
           /\ (OfKind(inp.tree, SubtreeOf(inp.tree, out.node),
                      { "If", "While", "For", "AsyncFor", "ExceptHandler", "BoolOp" }) = { }
                 => out.value = 1)
           /\ (inp.tree = TwoIfsOneWhile => out.value = 4)

C7_Witness ==
    /\ ComplexityCalled
    /\ inp.tree = TwoIfsOneWhile
    /\ out.node = 2
    /\ out.value = 4

\* the methods defined directly in the body of class c
MethodsOf(t, c) == { j \in DOMAIN t : t[j].parent = c /\ IsFunctionDef(t[j]) }

RECURSIVE SumOfComplexities(_, _)
SumOfComplexities(t, S) ==
    IF S = { } THEN 0
    ELSE LET j == CHOOSE k \in S : TRUE
         IN  _calculate_complexity(t, j) + SumOfComplexities(t, S \ { j })

\* C8: the complexity of a class is the sum of _calculate_complexity over
\* every method defined directly in the class body (methods of nested classes
\* excluded); no methods gives 0, methods of complexity 3 and 5 give 8.
C8_ClassComplexityIsSumOfMethods ==
    ClassComplexityCalled
        => out.value = SumOfComplexities(inp.tree, MethodsOf(inp.tree, out.node))

\* C9: for a successfully parsed file, maintainability_index is
\* max(0, 171 - 5.2*complexity - 0.23*lines_of_code - 16.2*function_count):
\* never negative, never clamped from above, and 171 for the empty file.
C9_MaintainabilityIndex ==
    (MetricsCalled /\ inp.readable /\ inp.parse = "ok")
        => LET m == out.value
               raw == 17100 - 520 * m.complexity - 23 * m.lines_of_code
                            - 1620 * m.function_count
           IN  /\ m.maintainability_index.den = 1
               /\ m.maintainability_index.num >= 0
               /\ (raw >= 0 => m.maintainability_index.num = raw)
               /\ (raw < 0 => m.maintainability_index.num = 0)
               /\ ((m.complexity = 0 /\ m.lines_of_code = 0 /\ m.function_count = 0)
                     => m.maintainability_index.num = 17100)

C9_Witness ==
    /\ MetricsCalled
    /\ inp.readable /\ inp.parse = "ok"
    /\ out.value.function_count > 0
    /\ 17100 - 520 * out.value.complexity - 23 * out.value.lines_of_code
             - 1620 * out.value.function_count < 0
    /\ out.value.maintainability_index.num = 0

(***************************************************************************)
(* Properties of analyze_file and run_analysis.                            *)
(***************************************************************************)
FileAnalyzed == out # NoValue /\ "fn" \in DOMAIN out /\ out.fn = "analyze_file"

ReportReturned == pc = "done" /\ report # NoValue

RECURSIVE SumAt(_, _)
\* sum of the entries of sequence s at the positions S
SumAt(s, S) ==
    IF S = { } THEN 0
    ELSE LET k == CHOOSE q \in S : TRUE
         IN  s[k] + SumAt(s, S \ { k })

\* C1: for a file whose content is syntactically invalid, analyze_file returns
\* exactly one issue, of kind syntax_error or parsing_error, and no issue of
\* any other detector.
C1_InvalidSyntaxYieldsOneIssue ==
    (FileAnalyzed /\ FileSystem[inp.path].readable /\ FileSystem[inp.path].parse # "ok")
        => /\ Len(out.issues) = 1
           /\ out.issues[1].issue_type \in { "syntax_error", "parsing_error" }

\* C2: whatever the discovered files and the per-file outcomes are,
\* run_analysis never aborts: it analyzes every discovered file and returns a
\* report whose total_files is the number of discovered files.
C2_RunNeverAborts ==
    config \in FullConfigs
        => /\ pc # "aborted"
           /\ ReportReturned
                => /\ report.total_files = Len(python_files)
                   /\ Len(file_counts) = Len(python_files)

\* C10: in every returned report, total_issues is the length of the issue list
\* and the sum over the analyzed files of the number of issues analyze_file
\* returned; adding the counts of the two parts of any partition of the files
\* gives the same total.
C10_TotalIssuesIsSumOfFileCounts ==
    ReportReturned
        => /\ report.total_issues = Len(report.issues)
           /\ report.total_issues = SumSeq(file_counts)
           /\ report.summary.total_issues = report.total_issues
           /\ \A S \in SUBSET DOMAIN file_counts :
                 SumAt(file_counts, S) + SumAt(file_counts, DOMAIN file_counts \ S)
                    = report.total_issues

C10_Witness ==
    /\ ReportReturned
    /\ Len(python_files) = 2
    /\ Len(file_counts) = 2
    /\ file_counts[1] >= 2
    /\ file_counts[2] >= 1
    /\ file_counts[1] # file_counts[2]
    /\ report.total_issues = file_counts[1] + file_counts[2]

(***************************************************************************)
(* The end-to-end example: one run_analysis over the three-file project,  *)
(* in any discovery order.                                                 *)
(***************************************************************************)
ProjectLists ==
    { l \in [1..3 -> DOMAIN EndToEndProject] : IsInjective(l) }

\* flake8 on a project file: silent, two E findings, or timing out
ProjectToolOutcomes ==
    { ToolExits(0, FALSE, << >>),
      ToolExits(1, TRUE, << JsonItem(1, "E"), JsonItem(2, "E") >>),
      ToolRaises("TimeoutExpired") }

RunProject ==
    /\ pc = "idle"
    /\ \E files \in ProjectLists : RunAnalysisOn(files)
    /\ UNCHANGED prev

AnalyzeProjectFile == AnalyzeFileWith(ProjectToolOutcomes)

NextProject == RunProject \/ AnalyzeProjectFile \/ Aggregate

SpecProject == Init /\ [][NextProject]_vars

\* the issues the k-th analyzed file contributed to the issue list
IssuesOfFile(issues, counts, k) ==
    SubSeq(issues, SumAt(counts, 1..(k - 1)) + 1, SumAt(counts, 1..k))

\* the position of path in the list of discovered files
PositionOf(path) == CHOOSE k \in DOMAIN python_files : python_files[k] = path

AllOfSeverity(issues, sev) == \A i \in DOMAIN issues : issues[i].severity = sev

\* C11: for the project of file A with exactly one warning, file B with
\* exactly two errors and the syntactically invalid file C, the returned report
\* has total_issues = 4 and a quality score strictly below 100.0.
C11_EndToEndTotalIsFour ==
    LET ofA == IssuesOfFile(report.issues, file_counts, PositionOf("A"))
        ofB == IssuesOfFile(report.issues, file_counts, PositionOf("B"))
    IN  ( /\ ReportReturned
          /\ { python_files[k] : k \in DOMAIN python_files } = { "A", "B", "C" }
          /\ Len(ofA) = 1 /\ AllOfSeverity(ofA, "warning")
          /\ Len(ofB) = 2 /\ AllOfSeverity(ofB, "error") )
            => /\ report.total_issues = 4
               /\ report.summary.quality_score < 10000

(***************************************************************************)
(* Two runs of run_analysis on one checker over the same set of files:    *)
(* the second run discovers the files of the first in any order.           *)
(***************************************************************************)
Reorderings(files) ==
    { l \in FileLists : /\ Len(l) = Len(files)
                        /\ { l[k] : k \in DOMAIN l } = { files[k] : k \in DOMAIN files } }

RunFirst == runs = 0 /\ RunAnalysis

\* the second call of run_analysis, after the first returned its report
RunAgain ==
    /\ pc = "done"
    /\ runs < MaxRuns
    /\ prev = NoValue
    /\ prev' = [files |-> python_files, counts |-> file_counts, report |-> report]
    /\ \E files \in Reorderings(python_files) : RunAnalysisOn(files)

\* flake8 in either run: timing out, reporting two findings, or printing a
\* line that cannot be interpreted
RerunToolOutcomes ==
    { ToolRaises("TimeoutExpired"),
      ToolExits(1, TRUE, << JsonItem(3, "E"), JsonItem(1, "W") >>),
      ToolExits(1, FALSE, << TextLine(4, FALSE, 0) >>) }

AnalyzeRerunFile == AnalyzeFileWith(RerunToolOutcomes)

NextRerun == RunFirst \/ RunAgain \/ AnalyzeRerunFile \/ Aggregate

SpecRerun == Init /\ [][NextRerun]_vars

BothRunsReturned == ReportReturned /\ prev # NoValue

\* the findings of the external tool among issues
ToolIssues(issues) == SelectSeq(issues, LAMBDA i : i.issue_type = "flake8")

\* the findings of the external tool for path in the run before
ToolIssuesBefore(path) ==
    LET k == CHOOSE j \in DOMAIN prev.files : prev.files[j] = path
    IN  ToolIssues(IssuesOfFile(prev.report.issues, prev.counts, k))

\* the findings of the external tool for path in this run
ToolIssuesNow(path) ==
    ToolIssues(IssuesOfFile(report.issues, file_counts, PositionOf(path)))

SameToolFindings ==
    \A k \in DOMAIN python_files :
        ToolIssuesNow(python_files[k]) = ToolIssuesBefore(python_files[k])

AbortedOnMissingField ==
    /\ pc = "aborted"
    /\ error = "KeyError"
    /\ inp = NoValue \/ run_external_tools(inp.tool).raised = "none"

\* C13: every configuration field is optional: with a configuration that
\* supplies only a subset of the fields (such as the one main builds without
\* --config) the analysis runs, the documented default standing in for each
\* missing field, and never stops on a missing field.
C13_EveryFieldOptional ==
    ~AbortedOnMissingField


\* cfg without the field key
Without(cfg, key) == [ k \in DOMAIN cfg \ { key } |-> cfg[k] ]

\* the default configuration with one field left out, as a --config file
\* that sets the other fields gives it
PartialConfigs ==
    { Without(_get_default_config, key) : key \in DOMAIN _get_default_config }

InitConfig ==
    /\ Idle
    /\ config \in PartialConfigs
    /\ inp = NoValue
    /\ out = NoValue

NextConfig == RunFirst \/ AnalyzeRerunFile \/ Aggregate

SpecConfig == InitConfig /\ [][NextConfig]_vars

IsComplete(cfg) == DOMAIN cfg = DOMAIN _get_default_config

\* C14: a configuration that lacks a required value is fatal: the run aborts
\* before any file is analyzed, so no analyze_file call returns a list of
\* issues under such a configuration.
C14_MissingConfigAbortsBeforeAnalysis ==
    ~IsComplete(config) => file_counts = << >>

(***************************************************************************)
(* The external tool inside analyze_file.                                  *)
(***************************************************************************)
\* analyze_file was called and reached run_external_tools
ToolCalled == inp # NoValue /\ "tool" \in DOMAIN inp /\ HasKey(config, "max_line_length")

\* flake8 printed something that is neither a JSON list of findings nor text
\* lines of the form path:line:column:message
Uninterpretable(tool) ==
    /\ tool.raises = "none"
    /\ tool.returncode # 0
    /\ \E i \in DOMAIN tool.items :
          \/ tool.json /\ ~tool.items[i].keys
          \/ ~tool.json /\ tool.items[i].nparts >= 3 /\ ~tool.items[i].isint

\* C15: run_external_tools never raises into the core: when the external
\* linter is absent, times out, fails or prints output that cannot be
\* interpreted, the call returns normally (analyze_file returns its issues)
\* and contributes no issue.
C15_ExternalToolNeverRaises ==
    (ToolCalled /\ (inp.tool.raises # "none" \/ Uninterpretable(inp.tool)))
        => /\ FileAnalyzed
           /\ ToolIssues(out.issues) = << >>

(***************************************************************************)
(* The aggregated metrics of a report.                                     *)
(***************************************************************************)
IntegerFields ==
    { "lines_of_code", "comment_lines", "blank_lines", "function_count", "class_count",
      "complexity" }

\* the Metrics calculate_metrics gives for the k-th discovered file
MetricsOfFile(k) == calculate_metrics(FileAt(python_files[k]))

FirstRunReturned == ReportReturned /\ runs = 1

\* C16: in the report of a run on a fresh checker every integer field of the
\* aggregated Metrics is the sum of that field over the analyzed files, and
\* maintainability_index is the unweighted arithmetic mean of the per-file
\* maintainability indices (sum of the indices divided by the number of files).
C16_AggregatedMetricsAreSumsAndMean ==
    FirstRunReturned
        => /\ \A field \in IntegerFields :
                 report.metrics[field]
                    = SumAt([k \in DOMAIN python_files |-> MetricsOfFile(k)[field]],
                            DOMAIN python_files)
           /\ python_files # << >>
                 => /\ report.metrics.maintainability_index.den > 0
                    /\ report.metrics.maintainability_index.num * Len(python_files)
                          = SumAt([k \in DOMAIN python_files |->
                                     MetricsOfFile(k).maintainability_index.num],
                                  DOMAIN python_files)
                            * report.metrics.maintainability_index.den

C16_Witness ==
    /\ FirstRunReturned
    /\ Len(python_files) = 2
    /\ \A k \in DOMAIN python_files :
          /\ MetricsOfFile(k).lines_of_code > 0
          /\ MetricsOfFile(k).maintainability_index.num > 0
    /\ MetricsOfFile(1).complexity # MetricsOfFile(2).complexity
    /\ report.metrics.complexity = MetricsOfFile(1).complexity + MetricsOfFile(2).complexity

OfIssueType(issues, kind) == SelectSeq(issues, LAMBDA i : i.issue_type = kind)

DetectorErrorKinds ==
    { "line_length_analysis_error", "naming_analysis_error", "complexity_analysis_error" }

\* analyze_file returned for a file that cannot be opened: the line-length,
\* naming and complexity detectors each fail on it
AnalyzedUnreadable == FileAnalyzed /\ ~FileAt(inp.path).readable

\* C18: a failure inside a detector (line length, naming, complexity) on a file
\* is caught and converted into exactly one error-severity issue of kind
\* '<detector>_analysis_error', the other detectors still running: for a file
\* on which all three fail, analyze_file returns exactly one error issue of
\* each of the three kinds.
C18_DetectorFailureIsOneAnalysisError ==
    AnalyzedUnreadable
        => \A kind \in DetectorErrorKinds :
              /\ Len(OfIssueType(out.issues, kind)) = 1
              /\ AllOfSeverity(OfIssueType(out.issues, kind), "error")

\* C19: for a file that cannot be read (open, read or decoding failure)
\* analyze_file returns exactly one issue, of severity error.
C19_UnreadableFileYieldsOneIssue ==
    AnalyzedUnreadable
        => /\ Len(out.issues) = 1
           /\ out.issues[1].severity = "error"

(***************************************************************************)
(* The metrics of a file that cannot be read or parsed.                    *)
(***************************************************************************)
\* C20: a file that cannot be read or cannot be parsed contributes all-zero
\* Metrics: every count, the complexity and the maintainability_index that
\* calculate_metrics returns for it are 0.
C20_UnparsedFileHasZeroMetrics ==
    (MetricsCalled /\ (~inp.readable \/ inp.parse # "ok"))
        => /\ \A field \in IntegerFields : out.value[field] = 0
           /\ out.value.maintainability_index.num = 0

C20_Witness ==
    /\ MetricsCalled
    /\ inp.readable
    /\ inp.parse # "ok"
    /\ inp.lines # << >>
    /\ out.value.lines_of_code = 0
    /\ out.value.maintainability_index.num = 0

(***************************************************************************)
(* Direct calls of _calculate_quality_score under configuration files      *)
(* that override the severity weights.                                     *)
(***************************************************************************)
\* a configuration file with a heavy weight, a zero weight and no info weight
HeavyConfig ==
    [ _get_default_config EXCEPT !.severity_weights = [error |-> 40, warning |-> 0] ]

\* a configuration file with a negative weight
RebateConfig ==
    [ _get_default_config EXCEPT
        !.severity_weights = [error |-> 3, warning |-> 2, info |-> -4] ]

WeightConfigs == { _get_default_config, HeavyConfig, RebateConfig }

InitWeights ==
    /\ Idle
    /\ config \in WeightConfigs
    /\ inp \in [issues : ScorerIssues, metrics : ScorerMetrics]
    /\ out = NoValue

NextWeights == CallScore

SpecWeights == InitWeights /\ [][NextWeights]_vars

NoNegativeWeight(cfg) ==
    \A s \in DOMAIN cfg.severity_weights : cfg.severity_weights[s] >= 0

MaxTextLines == 2     \* lines of an enumerated character text
MaxChars == 2         \* characters of an enumerated text line

Whitespace == { " " }

TextChars == Whitespace \cup { "#", "x" }

RECURSIVE lstrip(_)
lstrip(s) ==
    IF s # << >> /\ Head(s) \in Whitespace THEN lstrip(Tail(s)) ELSE s

RECURSIVE rstrip(_)
rstrip(s) ==
    IF s # << >> /\ s[Len(s)] \in Whitespace THEN rstrip(SubSeq(s, 1, Len(s) - 1)) ELSE s

\* Variant of strip: only the trailing whitespace is removed.
strip_TrailingOnly(s) == rstrip(s)

strip(s) == lstrip(rstrip(s))

\* the line as the detectors and calculate_metrics see it
LineOfText(s) ==
    Line(IF strip(s) # << >> /\ Head(strip(s)) = "#" THEN "comment"
         ELSE IF strip(s) = << >> THEN "blank"
         ELSE "code",
         Len(s), Len(s) - Len(rstrip(s)))

FileOfText(text, tree) ==
    SourceFile([ i \in DOMAIN text |-> LineOfText(text[i]) ], tree)

TextLines == SeqsUpTo(TextChars, MaxChars)

InitText ==
    /\ Idle
    /\ config = _get_default_config
    /\ out = NoValue
    /\ inp \in [text : SeqsUpTo(TextLines, MaxTextLines),
                tree : { << Module >>, ClassTwoMethods }]

CallMetricsOnText ==
    /\ out = NoValue
    /\ out' = [fn |-> "calculate_metrics", node |-> 0,
               value |-> calculate_metrics(FileOfText(inp.text, inp.tree))]
    /\ UNCHANGED << config, metrics, pc, python_files, idx, all_issues,
                    total_issues, file_counts, report, error, runs, prev, inp >>

NextText == CallMetricsOnText

SpecText == InitText /\ [][NextText]_vars

\* the line is empty or holds whitespace only
IsBlankText(s) == \A i \in DOMAIN s : s[i] \in Whitespace

\* the first character of the line that is no whitespace is '#'
IsCommentText(s) ==
    \E i \in DOMAIN s : s[i] = "#" /\ \A j \in 1..(i - 1) : s[j] \in Whitespace

Severities == { "error", "warning", "info" }

WellFormedIssue(issue) == issue.severity \in Severities /\ issue.line_number >= 0

\* C23: every issue of every report, whether a built-in detector, an error
\* conversion or the external tool produced it, has a severity among error,
\* warning and info and a line_number >= 0.
C23_IssuesHaveEnumeratedSeverityAndLine ==
    /\ \A i \in DOMAIN all_issues : WellFormedIssue(all_issues[i])
    /\ ReportReturned => \A i \in DOMAIN report.issues : WellFormedIssue(report.issues[i])

C23_Witness ==
    /\ ReportReturned
    /\ OfIssueType(report.issues, "flake8") # << >>
    /\ OfIssueType(report.issues, "syntax_error") # << >>
    /\ OfIssueType(report.issues, "naming_analysis_error") # << >>
    /\ OfIssueType(report.issues, "line_too_long") # << >>
    /\ \E i \in DOMAIN report.issues : report.issues[i].line_number = 0
    /\ \E i \in DOMAIN report.issues : report.issues[i].severity = "warning"

(***************************************************************************)
(* Direct calls of the threshold detectors on parsed files, under a        *)
(* configuration file with small thresholds.                               *)
(***************************************************************************)
TightConfig ==
    [ _get_default_config EXCEPT !.max_line_length = 10,
                                 !.max_function_complexity = 2,
                                 !.max_class_complexity = 2 ]

\* lines of 9, 10 and 11 characters, one of them ending in two spaces
DetectLines ==
    { Line("code", 9, 0), Line("code", 10, 0), Line("code", 11, 0), Line("code", 11, 2),
      Line("comment", 12, 0) }

InitDetect ==
    /\ Idle
    /\ config = TightConfig
    /\ out = NoValue
    /\ \/ \E l \in SeqsUpTo(DetectLines, MaxLines) : inp = SourceFile(l, << Module >>)
       \/ \E t \in ExampleTrees : inp = SourceFile(<< >>, t)
       \/ \E n \in 2..MaxNodes : \E p \in ParentSeqs(n) :
             \E ks \in [2..n -> DOMAIN NodeVariants(1)] :
                /\ WellFormed(TreeOf(p, ks @@ (1 :> 1)))
                /\ inp = SourceFile(<< >>, TreeOf(p, ks @@ (1 :> 1)))

CallLineLength ==
    /\ out = NoValue
    /\ out' = [fn |-> "check_line_length", issues |-> check_line_length("a.py", inp, config)]
    /\ UNCHANGED << config, metrics, pc, python_files, idx, all_issues,
                    total_issues, file_counts, report, error, runs, prev, inp >>

CallAnalyzeComplexity ==
    /\ out = NoValue
    /\ out' = [fn |-> "analyze_complexity",
               issues |-> analyze_complexity("a.py", inp, config)]
    /\ UNCHANGED << config, metrics, pc, python_files, idx, all_issues,
                    total_issues, file_counts, report, error, runs, prev, inp >>

NextDetect == CallLineLength \/ CallAnalyzeComplexity

SpecDetect == InitDetect /\ [][NextDetect]_vars

LineLengthCalled == out # NoValue /\ out.fn = "check_line_length"

AnalyzeComplexityCalled == out # NoValue /\ out.fn = "analyze_complexity"

\* the warnings of one kind among issues that are located at line
WarningsAt(issues, kind, line) ==
    SelectSeq(issues, LAMBDA i : /\ i.issue_type = kind
                                 /\ i.line_number = line
                                 /\ i.severity = "warning")

OneIfElseNone(exceeds) == IF exceeds THEN 1 ELSE 0

C25_MessageNamesMeasuredLength ==
    LineLengthCalled
        => \A i \in DOMAIN out.issues :
              out.issues[i].issue_type = "line_too_long"
                 => /\ out.issues[i].message.measured
                          = inp.lines[out.issues[i].line_number].len
                    /\ out.issues[i].message.limit = config.max_line_length
                    /\ out.issues[i].message.measured > out.issues[i].message.limit

(***************************************************************************)
(* Direct calls of check_naming_conventions on files that define or        *)
(* assign one or two names.                                                *)
(***************************************************************************)
NameChars == { "a", "X", "_", "1" }

\* identifiers of up to MaxChars characters: the first is no digit
Identifiers ==
    { s \in SeqsUpTo(NameChars, MaxChars) : s # << >> /\ s[1] # "1" }

\* a definition or a use of the name s, as a child of the Module
NamedNodes(s) ==
    { FunctionDef(s, 1), AsyncFunctionDef(s, 1), ClassDef(s, 1), Name(s, "Store", 1),
      Name(s, "Load", 1) }

InitNaming ==
    /\ Idle
    /\ config = _get_default_config
    /\ out = NoValue
    /\ \E s1 \in Identifiers : \E n1 \in NamedNodes(s1) :
          \/ inp = SourceFile(<< >>, << Module, n1 >>)
          \/ \E s2 \in Identifiers : \E n2 \in NamedNodes(s2) :
                inp = SourceFile(<< >>, << Module, n1, n2 >>)

CallNaming ==
    /\ out = NoValue
    /\ out' = [fn |-> "check_naming_conventions",
               issues |-> check_naming_conventions("a.py", inp)]
    /\ UNCHANGED << config, metrics, pc, python_files, idx, all_issues,
                    total_issues, file_counts, report, error, runs, prev, inp >>

NextNaming == CallNaming

SpecNaming == InitNaming /\ [][NextNaming]_vars

NamingCalled == out # NoValue /\ out.fn = "check_naming_conventions"

HasUpperLetter(s) == \E i \in DOMAIN s : s[i] = "X"

HasLowerLetter(s) == \E i \in DOMAIN s : s[i] = "a"

HasNoUnderscore(s) == \A i \in DOMAIN s : s[i] # "_"

\* the severity of the issue the fixed rule of the node's kind asks for, or
\* "none"
RuleOf(node) ==
    IF node.kind = "FunctionDef"
    THEN (IF HasUpperLetter(node.name) /\ HasNoUnderscore(node.name)
             THEN "warning" ELSE "none")
    ELSE IF node.kind = "ClassDef"
    THEN (IF node.name[1] # "X" \/ ~HasNoUnderscore(node.name)
             THEN "warning" ELSE "none")
    ELSE IF node.kind = "Name" /\ node.ctx = "Store"
    THEN (IF /\ HasUpperLetter(node.name) /\ HasLowerLetter(node.name)
             /\ HasNoUnderscore(node.name)
             THEN "info" ELSE "none")
    ELSE "none"

IssuesAt(issues, line) == SelectSeq(issues, LAMBDA i : i.line_number = line)

ConfiguredWeightAt(k) ==
    LET sev == inp.issues[k].severity
    IN  IF sev \in DOMAIN config.severity_weights THEN config.severity_weights[sev] ELSE 1

\* max(0, 100 - penalty) times 100 * ScoredDen, the issues contributing weights
WeightedScoreNum(weights) ==
    Max(0, (10000 - 100 * (SumAt(weights, DOMAIN weights)
                           + Min(2 * inp.metrics.complexity, 20))) * ScoredDen
           - Max(0, 5000 * ScoredDen - ScoredMI))

\* C27: in _calculate_quality_score each issue contributes the weight the
\* configuration's severity_weights mapping assigns to its severity, and an
\* issue whose severity is no key of the mapping contributes weight 1: the
\* score is the rounded max(0, 100 - penalty) for the penalty made of these
\* weights and the two metric terms.
C27_IssueContributesConfiguredWeight ==
    (Scored /\ inp.issues # << >>)
        => 2 * Abs(out.score * ScoredDen
                   - WeightedScoreNum([k \in DOMAIN inp.issues |-> ConfiguredWeightAt(k)]))
              <= ScoredDen

\* an overridden weight, a severity the file leaves out and an unknown severity
C27_Witness ==
    /\ Scored
    /\ config = HeavyConfig
    /\ Len(inp.issues) = 3
    /\ inp.issues[1].severity = "error"
    /\ inp.issues[2].severity = "info"
    /\ inp.issues[3].severity = "critical"
    /\ inp.metrics.complexity = 0
    /\ ScoredMI >= 5000 * ScoredDen
    /\ out.score = 5800

(***************************************************************************)
(* The summary of a report.                                                *)
(***************************************************************************)
\* the number of issues whose field has the value v
NumberWith(issues, field, v) ==
    Cardinality({ i \in DOMAIN issues : issues[i][field] = v })

\* counts holds, for every value of field among issues and for no other value,
\* the number of issues with that value
CountsIssuesBy(counts, issues, field) ==
    /\ DOMAIN counts = { issues[i][field] : i \in DOMAIN issues }
    /\ \A v \in DOMAIN counts : counts[v] = NumberWith(issues, field, v)

\* C28: in every report the summary's counts by severity sum to total_issues
\* and its counts by kind sum to total_issues, each count being the number of
\* issues of the merged issue list with that severity or kind; the quality
\* score of the summary is the result of the scorer on the merged issue list
\* and the aggregated Metrics.
C28_SummaryCountsAndScore ==
    ReportReturned
        => LET by_severity == report.summary.issues_by_severity
               by_type == report.summary.issues_by_type
           IN  /\ CountsIssuesBy(by_severity, report.issues, "severity")
               /\ CountsIssuesBy(by_type, report.issues, "issue_type")
               /\ SumAt(by_severity, DOMAIN by_severity) = report.total_issues
               /\ SumAt(by_type, DOMAIN by_type) = report.total_issues
               /\ report.summary.total_issues = report.total_issues
               /\ report.summary.quality_score
                     \in _calculate_quality_score(config, report.issues, report.metrics)

C28_Witness ==
    /\ ReportReturned
    /\ report.total_issues >= 4
    /\ Cardinality(DOMAIN report.summary.issues_by_severity) = 2
    /\ Cardinality(DOMAIN report.summary.issues_by_type) >= 3
    /\ \E v \in DOMAIN report.summary.issues_by_type : report.summary.issues_by_type[v] >= 2
    /\ report.summary.quality_score < 10000

(***************************************************************************)
(* The metrics map across files and runs.                                  *)
(***************************************************************************)
\* C29: after any sequence of run_analysis calls on one checker, the set of
\* discovered files possibly changing between the calls, the aggregated
\* Metrics of the latest report are computed over exactly the files of the
\* latest run: every integer field is the sum over these files and the
\* maintainability index is the mean over these files.
C29_MetricsCoverLatestRunOnly ==
    ReportReturned
        => /\ \A field \in IntegerFields :
                 report.metrics[field]
                    = SumAt([k \in DOMAIN python_files |-> MetricsOfFile(k)[field]],
                            DOMAIN python_files)
           /\ python_files # << >>
                 => report.metrics.maintainability_index.num * Len(python_files)
                       = SumAt([k \in DOMAIN python_files |->
                                  MetricsOfFile(k).maintainability_index.num],
                               DOMAIN python_files)
                         * report.metrics.maintainability_index.den

\* a step in which analyze_file returns for the file at idx
AnalyzeFileReturns == pc = "loop" /\ idx <= Len(python_files) /\ idx' = idx + 1

\* C30: analyze_file(f) changes no state that belongs to another file: of the
\* metrics map it writes only the entry keyed by f, leaving every other
\* file's entry and the configuration unchanged.
C30_AnalyzeFileWritesOnlyItsEntry ==
    [][ AnalyzeFileReturns
          => /\ DOMAIN metrics' = DOMAIN metrics \cup { python_files[idx] }
             /\ \A q \in DOMAIN metrics \ { python_files[idx] } : metrics'[q] = metrics[q]
             /\ config' = config ]_vars

\* analyze_file returned for a file while the map held another file's entry
C30_Witness ==
    /\ FileAnalyzed
    /\ \E q \in DOMAIN metrics :
          /\ q # inp.path
          /\ metrics[q].lines_of_code > 0
          /\ metrics[q] = calculate_metrics(FileAt(q))
    /\ metrics[inp.path].lines_of_code > 0
    /\ pc = "loop"

=============================================================================
